---- MODULE Spec2Model ----
(***************************************************************************)
(* Frame crypto transform of lib-jitsi-meet's E2EEcontext: the key ring,   *)
(* the per-ssrc send counters, the sender transform (_encodeFunction) and  *)
(* the receiver transform (_decodeFunction), as a state machine.           *)
(*                                                                         *)
(* A payload is a sequence of bytes (0..255).  A chunk is a record         *)
(*   [data, type, synchronizationSource, timestamp, seq]                   *)
(* where seq is the position at which the chunk was delivered to its       *)
(* transform (bookkeeping only, the code never reads it).                  *)
(***************************************************************************)
EXTENDS Integers, Sequences, FiniteSets, TLC

\* ------------------------------------------------------------ constants

keyRingSize == 8

ivLength == 12

\* AES-GCM's authentication tag: 128 bits when AesGcmParams names no tagLength.
TagLength == 16

\* The modulus _encodeFunction applies to the send count (0xFFFF).
SendCountModulus == 65535

\* Math.floor(Math.random() * 0xFFFF) lies in 0 .. RandomScale - 1.
RandomScale == 65535

\* newData = new ArrayBuffer(10 + plainText.byteLength) in _decodeFunction.
DecodedHeaderBytes == 10

\* ---------------------------------------------------------------- bounds

\* Frames delivered to the transforms of a run of Spec, all streams together.
MaxFrames == 2

\* Key installations of a run of Spec.
MaxSetKey == 2

\* Frames of the nonce-uniqueness run (SpecNonce).
NonceWindow == 10000

\* Frames delivered to each stream in a run of SpecOrder.
MaxOrderFrames == 3

\* Frames delivered to each of the two sender streams in a run of SpecRace.
MaxRaceFrames == 2

\* ------------------------------------------------------- the model's sets

Senders == {1, 2}

Receivers == {1}

Ssrcs == {42, 43}

Timestamps == {1000}

\* Representatives of Math.random()'s range: both ends of 0 .. RandomScale - 1.
RandomOffsets == {0, RandomScale - 1}

\* ------------------------------------------------------------ byte helpers

\* The sum of the first n bytes of s.
RECURSIVE SumTo(_, _)
SumTo(s, n) == IF n = 0 THEN 0 ELSE s[n] + SumTo(s, n - 1)

SumSeq(s) == SumTo(s, Len(s))

\* DataView.setUint32(offset, x): x modulo 2^32, big-endian.
setUint32(x) ==
    LET hi == (x \div 65536) % 65536
        lo == x % 65536
    IN  << hi \div 256, hi % 256, lo \div 256, lo % 256 >>

\* JavaScript's % : the remainder takes the sign of the dividend.
JsRem(a, n) == IF a >= 0 THEN a % n ELSE -((-a) % n)

Zeros(n) == [i \in 1 .. n |-> 0]

\* new Uint8Array(buffer, from, len) as a copy of the bytes it views.
Slice(s, from, len) == [i \in 1 .. len |-> s[from + i]]

\* newUint8.set(src, offset): overwrite dst[offset ..] with src.
SetAt(dst, src, offset) ==
    [i \in 1 .. Len(dst) |->
        IF i > offset /\ i <= offset + Len(src) THEN src[i - offset] ELSE dst[i]]

\* const unencryptedBytes = { key: 10, delta: 3 }
unencryptedBytes(type) == IF type = "key" THEN 10 ELSE 3

\* ------------------------------------------------------------------ AEAD
\* crypto.subtle.encrypt / decrypt with AES-GCM, as an idealised AEAD over
\* bytes: a keystream that depends on key and iv, and a tag over key, iv and
\* the ciphertext body.  Decryption fails closed when the tag does not match.

KeyStream(key, iv, i) == (key * 7 + SumSeq(iv) + i) % 256

Tag(key, iv, body) ==
    LET digest == key * 17 + SumSeq(iv) * 3 + SumSeq(body)
    IN  [j \in 1 .. TagLength |-> (digest + j) % 256]

Encrypt(key, iv, pt) ==
    LET body == [i \in 1 .. Len(pt) |-> (pt[i] + KeyStream(key, iv, i)) % 256]
    IN  body \o Tag(key, iv, body)

Decrypt(key, iv, ct) ==
    IF Len(ct) < TagLength
    THEN [ok |-> FALSE, pt |-> <<>>]
    ELSE LET n    == Len(ct) - TagLength
             body == Slice(ct, 0, n)
             tag  == Slice(ct, n, TagLength)
         IN  IF tag = Tag(key, iv, body)
             THEN [ok |-> TRUE,
                   pt |-> [i \in 1 .. n |-> (body[i] + 256 - KeyStream(key, iv, i)) % 256]]
             ELSE [ok |-> FALSE, pt |-> <<>>]

\* ----------------------------------------------------------------- state

VARIABLES
    cryptoKeyRing,    \* this._cryptoKeyRing: slot -> key, NoKey for an empty slot
    currentKeyIndex,  \* this._currentKeyIndex
    sendCounts,       \* this._sendCounts: ssrc -> count, Absent when not in the Map
    setKeyCalls,      \* parity of the number of completed setKey calls (history)
    installs,         \* key installations done (history, bounds the run)
    enc,              \* per sender stream: the transform's state and frame in flight
    senderOut,        \* per sender stream: chunks enqueued downstream, in order
    encDone,          \* per sender stream: how the last finished frame ended
    arrivedEnc,       \* per sender stream: chunks delivered to the transform
    dec,              \* per receiver stream: the transform's state and frame in flight
    receiverOut,      \* per receiver stream: chunks enqueued downstream, in order
    decDone,          \* per receiver stream: how the last finished frame ended
    arrivedDec,       \* per receiver stream: chunks delivered to the transform
    nonceWindow       \* per ssrc: first iv under the current key, frames since, repeat seen

vars == << cryptoKeyRing, currentKeyIndex, sendCounts, setKeyCalls, installs,
           enc, senderOut, encDone, arrivedEnc, dec, receiverOut, decDone, arrivedDec,
           nonceWindow >>

keyVars == << cryptoKeyRing, currentKeyIndex, setKeyCalls, installs >>

encVars == << enc, senderOut, encDone, arrivedEnc >>

decVars == << dec, receiverOut, decDone, arrivedDec >>

NoKey == 0

Absent == -1

NoChunk == [data |-> <<>>, type |-> "none", synchronizationSource |-> 0, timestamp |-> 0,
            seq |-> 0]

\* Where a receiver's input came from (bookkeeping, never read by the code):
\* kind "wire" for a sender's output, with the plaintext, type and key it was
\* made from, the installation that put that key in the ring, and whether a
\* bit was flipped on the way; kind "raw" for bytes that never were a sender's.
NoOrigin == [kind |-> "none", plain |-> <<>>, type |-> "none", key |-> NoKey,
             keyIndex |-> -1, call |-> 0, tampered |-> FALSE]

\* A transform with no frame in flight.  With one in flight: the chunk, the
\* iv, key index and key the call resolved, the send count it read from the
\* Map (an encode that reached the iv's construction), the frame type it works
\* with, and (bookkeeping) the number of installations done when the call was
\* made and the input's origin.
Idle == [status |-> "idle", chunk |-> NoChunk, iv |-> <<>>, keyIndex |-> -1, key |-> NoKey,
         sendCount |-> Absent, chunkType |-> "none", call |-> 0, origin |-> NoOrigin]

\* How a transform's last finished frame ended (bookkeeping): the result, the
\* chunk as delivered, the number of controller.enqueue calls made for it,
\* whether logger.error was called, and what the call resolved.
NoOutcome == [result |-> "none", chunk |-> NoChunk, enqueued |-> 0, logged |-> FALSE,
              key |-> NoKey, keyIndex |-> -1, iv |-> <<>>, call |-> 0,
              origin |-> NoOrigin]

Outcome(result, op, enqueued, logged) ==
    [result |-> result, chunk |-> op.chunk, enqueued |-> enqueued, logged |-> logged,
     key |-> op.key, keyIndex |-> op.keyIndex, iv |-> op.iv, call |-> op.call,
     origin |-> op.origin]

NoWindow == [key |-> NoKey, first |-> <<>>, n |-> 0, repeated |-> FALSE]

\* Mutant of KeyAt: the first slot's key, whatever the index.
KeyAtFirst(ring, index) == ring[0]

\* this._cryptoKeyRing[index], undefined (NoKey) outside the array.
KeyAt(ring, index) == IF index \in 0 .. keyRingSize - 1 THEN ring[index] ELSE NoKey

\* constructor(options)
Init ==
    /\ cryptoKeyRing = [i \in 0 .. keyRingSize - 1 |-> NoKey]
    /\ currentKeyIndex = -1
    /\ sendCounts = [x \in Ssrcs |-> Absent]
    /\ setKeyCalls = 0
    /\ installs = 0
    /\ enc = [s \in Senders |-> Idle]
    /\ senderOut = [s \in Senders |-> <<>>]
    /\ encDone = [s \in Senders |-> NoOutcome]
    /\ arrivedEnc = [s \in Senders |-> 0]
    /\ dec = [r \in Receivers |-> Idle]
    /\ receiverOut = [r \in Receivers |-> <<>>]
    /\ decDone = [r \in Receivers |-> NoOutcome]
    /\ arrivedDec = [r \in Receivers |-> 0]
    /\ nonceWindow = [x \in Ssrcs |-> NoWindow]

\* ------------------------------------------------------------- key ring

\* async _deriveKey(value) { return value; }
deriveKey(value) == value

\* async setKey(value): derives the key and stops there (the body ends in TODO):
\* neither the ring nor the index is written.
setKey(value) ==
    /\ LET key == deriveKey(value)
       IN  setKeyCalls' = 1 - setKeyCalls
    /\ UNCHANGED << cryptoKeyRing, currentKeyIndex, installs, sendCounts >>
    /\ UNCHANGED << encVars, decVars, nonceWindow >>

\* The key installation the specification gives setKey: advance the index by
\* one modulo the ring size and store the derived key in that slot.
installKey(value) ==
    /\ LET key  == deriveKey(value)
           next == (currentKeyIndex + 1) % keyRingSize
       IN  /\ currentKeyIndex' = next
           /\ cryptoKeyRing' = [cryptoKeyRing EXCEPT ![next] = key]
    /\ installs' = installs + 1
    /\ UNCHANGED << setKeyCalls, sendCounts >>
    /\ UNCHANGED << encVars, decVars, nonceWindow >>

\* ------------------------------------------------------------ the sender

\* The payload of a test chunk: a first byte, then distinct non-zero bytes.
Payload(first, n) == [i \in 1 .. n |-> IF i = 1 THEN first ELSE (i * 11) % 256]

\* What a sender's readable stream delivers: key and delta frames, with even
\* and odd first bytes, with and without bytes after the unencrypted prefix,
\* one frame shorter than its prefix, and a frame of a second ssrc.
AllSenderInputs ==
    { [type |-> "key",   data |-> Payload(16, 12), ssrc |-> 42],
      [type |-> "key",   data |-> Payload(17, 10), ssrc |-> 42],
      [type |-> "delta", data |-> Payload(1, 5),   ssrc |-> 42],
      [type |-> "delta", data |-> Payload(2, 3),   ssrc |-> 42],
      [type |-> "delta", data |-> Payload(1, 2),   ssrc |-> 42],
      [type |-> "delta", data |-> Payload(1, 5),   ssrc |-> 43] }

\* Stream 1 carries every kind of frame; stream 2 carries delta frames of the
\* ssrc that stream 1 sends too.
SenderInputs(s) ==
    IF s = 1 THEN AllSenderInputs
    ELSE { x \in AllSenderInputs : x.ssrc = 42 /\ x.data = Payload(1, 5) }

\* Mutant of SeededCount: a get that ran before the set of an encode of the
\* same ssrc that is still under way, and so returns the count that one read.
SeededCountStale(counts, ssrc, offset) ==
    LET inFlight == { s \in Senders : /\ enc[s].status = "encrypting"
                                      /\ enc[s].chunk.synchronizationSource = ssrc }
    IN  IF inFlight # {}
        THEN enc[CHOOSE s \in inFlight : TRUE].sendCount
        ELSE IF counts[ssrc] = Absent THEN offset ELSE counts[ssrc]

\* this._sendCounts.get(ssrc) after the Map was seeded with offset, if it had
\* no entry for ssrc.
SeededCount(counts, ssrc, offset) == IF counts[ssrc] = Absent THEN offset ELSE counts[ssrc]

\* Mutant of CounterField: only the low byte of the send count is kept.
CounterFieldLowByte(sendCount) == sendCount % 256

\* ivView.setUint32(8, sendCount % 0xFFFF)
CounterField(sendCount) == sendCount % SendCountModulus

\* The 12-byte iv: ssrc, timestamp, counter field, each a big-endian uint32.
MakeIv(ssrc, timestamp, sendCount) ==
    setUint32(ssrc) \o setUint32(timestamp) \o setUint32(CounterField(sendCount))

\* History of the ivs used for one ssrc under one key: the first of them, the
\* number of frames since, and whether one of the NonceWindow - 1 frames
\* after the first used the first one's iv again.
NextWindow(w, key, iv) ==
    IF w.key # key
    THEN [key |-> key, first |-> iv, n |-> 0, repeated |-> FALSE]
    ELSE [key |-> key, first |-> w.first,
          n |-> IF w.n < NonceWindow THEN w.n + 1 ELSE w.n,
          repeated |-> w.repeated \/ (w.n + 1 < NonceWindow /\ iv = w.first)]

\* Mutant of AssembleCipherFrame: the first bytes of the chunk are not copied.
AssembleCipherFrameNoPrefix(data, type, cipherText, iv, keyIndex) ==
    LET P       == unencryptedBytes(type)
        newData == Zeros(P + Len(cipherText) + Len(iv) + 1)
        b       == SetAt(newData, cipherText, P)
    IN  SetAt(b, iv, P + Len(cipherText))

\* The .then(cipherText => ...) callback's newData.  The key index is written
\* to the property named by (unencryptedBytes + cipherText.byteLength +
\* ivLength), an object plus two numbers, which is a string and no element
\* index: the last byte of the buffer keeps the zero it was allocated with.
AssembleCipherFrame(data, type, cipherText, iv, keyIndex) ==
    LET P       == unencryptedBytes(type)
        newData == Zeros(P + Len(cipherText) + Len(iv) + 1)
        a       == SetAt(newData, Slice(data, 0, P), 0)
        b       == SetAt(a, cipherText, P)
    IN  SetAt(b, iv, P + Len(cipherText))

\* Mutant of NoActiveKey: the frame is logged and then forwarded as it came,
\* the way _decodeFunction ends.
NoActiveKeyForwards(s, op) ==
    /\ senderOut' = [senderOut EXCEPT ![s] = Append(@,
           [chunk  |-> op.chunk,
            origin |-> [NoOrigin EXCEPT !.kind = "wire", !.plain = op.chunk.data,
                                        !.type = op.chunk.type, !.call = op.call]])]
    /\ encDone' = [encDone EXCEPT ![s] =
           Outcome("nokey", op, Len(senderOut'[s]) - Len(senderOut[s]), TRUE)]
    /\ UNCHANGED << enc, sendCounts, nonceWindow >>

\* Mutant of NoActiveKey: the frame that found no key takes a send count all
\* the same.
NoActiveKeyCounts(s, op) ==
    /\ UNCHANGED senderOut
    /\ encDone' = [encDone EXCEPT ![s] =
           Outcome("nokey", op, Len(senderOut'[s]) - Len(senderOut[s]), TRUE)]
    /\ sendCounts' = [sendCounts EXCEPT ![op.chunk.synchronizationSource] =
                         IF @ = Absent THEN 1 ELSE @ + 1]
    /\ UNCHANGED << enc, nonceWindow >>

\* The end of _encodeFunction, reached when the ring has no key at the index:
\* logger.error('Could not encrypt frame as there is no key.'), no enqueue.
NoActiveKey(s, op) ==
    /\ UNCHANGED senderOut
    /\ encDone' = [encDone EXCEPT ![s] =
           Outcome("nokey", op, Len(senderOut'[s]) - Len(senderOut[s]), TRUE)]
    /\ UNCHANGED << enc, sendCounts, nonceWindow >>

\* _encodeFunction(chunk, controller) up to the call of crypto.subtle.encrypt.
encodeFunction(s, shape, timestamp, offset) ==
    /\ enc[s].status = "idle"
    /\ LET ssrc     == shape.ssrc
           chunk    == [data |-> shape.data, type |-> shape.type,
                        synchronizationSource |-> ssrc, timestamp |-> timestamp,
                        seq |-> arrivedEnc[s] + 1]
           keyIndex == JsRem(currentKeyIndex, keyRingSize)
           key      == KeyAt(cryptoKeyRing, keyIndex)
           count    == SeededCount(sendCounts, ssrc, offset)
           iv       == MakeIv(ssrc, timestamp, count)
           op       == [status |-> "encrypting", chunk |-> chunk, iv |-> iv,
                        keyIndex |-> keyIndex, key |-> key, sendCount |-> count,
                        chunkType |-> chunk.type, call |-> installs, origin |-> NoOrigin]
       IN  /\ arrivedEnc' = [arrivedEnc EXCEPT ![s] = @ + 1]
           /\ IF key # NoKey
              THEN /\ sendCounts' = [sendCounts EXCEPT ![ssrc] = count + 1]
                   /\ nonceWindow' = [nonceWindow EXCEPT ![ssrc] = NextWindow(@, key, iv)]
                   /\ UNCHANGED senderOut
                   /\ IF Len(chunk.data) < unencryptedBytes(chunk.type)
                      THEN \* new Uint8Array(chunk.data, byteOffset) throws a RangeError
                           /\ enc' = [enc EXCEPT ![s] = [Idle EXCEPT !.status = "errored"]]
                           /\ encDone' = [encDone EXCEPT ![s] = Outcome("threw", op, 0, FALSE)]
                      ELSE /\ enc' = [enc EXCEPT ![s] = op]
                           /\ UNCHANGED encDone
              ELSE NoActiveKey(s, [op EXCEPT !.iv = <<>>, !.sendCount = Absent])
    /\ UNCHANGED << keyVars, decVars >>

\* Mutant of encryptFulfilled: the chunk is put in front of the chunks already
\* enqueued.
encryptFulfilledPrepends(s) ==
    /\ enc[s].status = "encrypting"
    /\ LET op         == enc[s]
           P          == unencryptedBytes(op.chunk.type)
           plain      == Slice(op.chunk.data, P, Len(op.chunk.data) - P)
           cipherText == Encrypt(op.key, op.iv, plain)
           newData    == AssembleCipherFrame(op.chunk.data, op.chunk.type, cipherText,
                                             op.iv, op.keyIndex)
       IN  /\ senderOut' = [senderOut EXCEPT ![s] =
                  << [chunk  |-> [op.chunk EXCEPT !.data = newData],
                      origin |-> [kind |-> "wire", plain |-> op.chunk.data,
                                  type |-> op.chunk.type, key |-> op.key,
                                  keyIndex |-> op.keyIndex, call |-> op.call,
                                  tampered |-> FALSE]] >> \o @]
           /\ encDone' = [encDone EXCEPT ![s] =
                  Outcome("encrypted", op, Len(senderOut'[s]) - Len(senderOut[s]), FALSE)]
    /\ enc' = [enc EXCEPT ![s] = Idle]
    /\ UNCHANGED << arrivedEnc, sendCounts, nonceWindow, keyVars, decVars >>

\* crypto.subtle.encrypt fulfils: assemble the frame and controller.enqueue(chunk).
encryptFulfilled(s) ==
    /\ enc[s].status = "encrypting"
    /\ LET op         == enc[s]
           P          == unencryptedBytes(op.chunk.type)
           plain      == Slice(op.chunk.data, P, Len(op.chunk.data) - P)
           cipherText == Encrypt(op.key, op.iv, plain)
           newData    == AssembleCipherFrame(op.chunk.data, op.chunk.type, cipherText,
                                             op.iv, op.keyIndex)
       IN  /\ senderOut' = [senderOut EXCEPT ![s] = Append(@,
                  [chunk  |-> [op.chunk EXCEPT !.data = newData],
                   origin |-> [kind |-> "wire", plain |-> op.chunk.data,
                               type |-> op.chunk.type, key |-> op.key,
                               keyIndex |-> op.keyIndex, call |-> op.call,
                               tampered |-> FALSE]])]
           /\ encDone' = [encDone EXCEPT ![s] =
                  Outcome("encrypted", op, Len(senderOut'[s]) - Len(senderOut[s]), FALSE)]
    /\ enc' = [enc EXCEPT ![s] = Idle]
    /\ UNCHANGED << arrivedEnc, sendCounts, nonceWindow, keyVars, decVars >>

\* Mutant of encryptRejected: the send count the frame consumed is given back.
encryptRejectedRollsBack(s) ==
    /\ enc[s].status = "encrypting"
    /\ UNCHANGED senderOut
    /\ encDone' = [encDone EXCEPT ![s] =
           Outcome("cryptofail", enc[s], Len(senderOut'[s]) - Len(senderOut[s]), TRUE)]
    /\ enc' = [enc EXCEPT ![s] = Idle]
    /\ sendCounts' = [sendCounts EXCEPT ![enc[s].chunk.synchronizationSource] = @ - 1]
    /\ UNCHANGED << arrivedEnc, nonceWindow, keyVars, decVars >>

\* crypto.subtle.encrypt rejects: e => { logger.error(e); }
encryptRejected(s) ==
    /\ enc[s].status = "encrypting"
    /\ UNCHANGED senderOut
    /\ encDone' = [encDone EXCEPT ![s] =
           Outcome("cryptofail", enc[s], Len(senderOut'[s]) - Len(senderOut[s]), TRUE)]
    /\ enc' = [enc EXCEPT ![s] = Idle]
    /\ UNCHANGED << arrivedEnc, sendCounts, nonceWindow, keyVars, decVars >>

\* senderStreams.readableStream.pipeThrough(transform).pipeTo(writableStream):
\* the writable side takes the oldest chunk the transform enqueued.
pipeTo(s) ==
    /\ senderOut[s] # <<>>
    /\ senderOut' = [senderOut EXCEPT ![s] = Tail(@)]
    /\ UNCHANGED << enc, encDone, arrivedEnc, sendCounts, nonceWindow, keyVars, decVars >>

\* ---------------------------------------------------------- the receiver

\* One bit of one byte inverted (bit is the bit's value: 1, 2, ..., 128).
FlipBit(b, bit) == IF (b \div bit) % 2 = 1 THEN b - bit ELSE b + bit

Tamper(data, pos, bit) == [data EXCEPT ![pos] = FlipBit(@, bit)]

\* Bytes that never left a sender: an empty payload, payloads shorter than
\* the 13 trailer bytes plus the smallest prefix, with last bytes naming
\* slot 0 and the first index beyond the ring, and a long enough payload
\* whose last byte names no slot of the ring, and one whose last byte names
\* slot 0 although no sender encrypted it.
RawPayloads ==
    { <<>>, <<0>>, Payload(2, 14) \o <<0>>, Payload(1, 14) \o <<8>>,
      Payload(1, 31) \o <<8>>, Payload(1, 31) \o <<0>> }

\* What a receiver's readable stream can deliver: a sender's output as sent,
\* a sender's output with one bit of its ciphertext or of its nonce flipped,
\* or raw bytes.
ReceiverInputs ==
    LET sent == UNION { { senderOut[s][i] : i \in 1 .. Len(senderOut[s]) } : s \in Senders }
        flips(f) ==
            LET n == Len(f.chunk.data)
                P == unencryptedBytes(f.origin.type)
            IN  { [chunk  |-> [f.chunk EXCEPT !.data = Tamper(f.chunk.data, c[1], c[2])],
                   origin |-> [f.origin EXCEPT !.tampered = TRUE]]
                  : c \in { <<P + 1, 1>>, <<n - 1, 128>> } }
        raw == { [chunk  |-> [NoChunk EXCEPT !.data = d, !.type = "delta"],
                  origin |-> [NoOrigin EXCEPT !.kind = "raw"]] : d \in RawPayloads }
    IN  sent \cup UNION { flips(f) : f \in sent } \cup raw

\* data[chunk.data.byteLength - 1]: undefined (-1 here) for an empty payload.
LastByte(data) == IF Len(data) = 0 THEN -1 ELSE data[Len(data)]

\* (data[0] & 0x1) === 0 ? 'key' : 'delta'
InferType(data) == IF data[1] % 2 = 0 THEN "key" ELSE "delta"

\* Whether one of the two typed-array views of _decodeFunction throws a
\* RangeError: the iv view starts before the buffer, or the ciphertext view
\* has a negative length.
ViewsThrow(data, chunkType) ==
    \/ Len(data) - ivLength - 1 < 0
    \/ Len(data) - (unencryptedBytes(chunkType) + ivLength + 1) < 0

\* The iv and the ciphertext _decodeFunction hands to crypto.subtle.decrypt.
IvOf(data) == Slice(data, Len(data) - ivLength - 1, ivLength)

CipherTextOf(data, chunkType) ==
    Slice(data, unencryptedBytes(chunkType),
          Len(data) - (unencryptedBytes(chunkType) + ivLength + 1))

\* The .then(plainText => ...) callback's newData.
AssemblePlainFrame(data, chunkType, plainText) ==
    LET newData == Zeros(DecodedHeaderBytes + Len(plainText))
        a       == SetAt(newData, Slice(data, 0, unencryptedBytes(chunkType)), 0)
    IN  SetAt(a, plainText, unencryptedBytes(chunkType))

\* Mutant of PassThrough: the frame that found no key is dropped.
PassThroughDrops(r, op) ==
    /\ UNCHANGED receiverOut
    /\ decDone' = [decDone EXCEPT ![r] =
           Outcome("passthrough", op, Len(receiverOut'[r]) - Len(receiverOut[r]), FALSE)]
    /\ UNCHANGED dec

\* The end of _decodeFunction, reached when the ring has no key at the index
\* the last byte names: controller.enqueue(chunk).
PassThrough(r, op) ==
    /\ receiverOut' = [receiverOut EXCEPT ![r] = Append(@, op.chunk)]
    /\ decDone' = [decDone EXCEPT ![r] =
           Outcome("passthrough", op, Len(receiverOut'[r]) - Len(receiverOut[r]), FALSE)]
    /\ UNCHANGED dec

\* _decodeFunction(chunk, controller) up to the call of crypto.subtle.decrypt.
decodeFunction(r, input) ==
    /\ dec[r].status = "idle"
    /\ LET chunk    == [input.chunk EXCEPT !.seq = arrivedDec[r] + 1]
           data     == chunk.data
           keyIndex == LastByte(data)
           key      == KeyAt(cryptoKeyRing, keyIndex)
           op       == [status |-> "decrypting", chunk |-> chunk, iv |-> <<>>,
                        keyIndex |-> keyIndex, key |-> key, sendCount |-> Absent,
                        chunkType |-> "none", call |-> installs, origin |-> input.origin]
       IN  /\ arrivedDec' = [arrivedDec EXCEPT ![r] = @ + 1]
           /\ IF key # NoKey
              THEN LET chunkType == InferType(data)
                   IN  IF ViewsThrow(data, chunkType)
                       THEN /\ dec' = [dec EXCEPT ![r] = [Idle EXCEPT !.status = "errored"]]
                            /\ UNCHANGED receiverOut
                            /\ decDone' = [decDone EXCEPT ![r] = Outcome("threw", op,
                                   Len(receiverOut'[r]) - Len(receiverOut[r]), FALSE)]
                       ELSE /\ dec' = [dec EXCEPT ![r] =
                                   [op EXCEPT !.iv = IvOf(data), !.chunkType = chunkType]]
                            /\ UNCHANGED << receiverOut, decDone >>
              ELSE PassThrough(r, op)
    /\ UNCHANGED << sendCounts, nonceWindow, keyVars, encVars >>

\* Mutant of decryptFulfilled: the payload is replaced and the chunk is never
\* enqueued.
decryptFulfilledSilent(r) ==
    /\ dec[r].status = "decrypting"
    /\ Decrypt(dec[r].key, dec[r].iv, CipherTextOf(dec[r].chunk.data, dec[r].chunkType)).ok
    /\ UNCHANGED receiverOut
    /\ decDone' = [decDone EXCEPT ![r] =
           Outcome("decrypted", dec[r], Len(receiverOut'[r]) - Len(receiverOut[r]), FALSE)]
    /\ dec' = [dec EXCEPT ![r] = Idle]
    /\ UNCHANGED << arrivedDec, sendCounts, nonceWindow, keyVars, encVars >>

\* crypto.subtle.decrypt fulfils: assemble the frame and controller.enqueue(chunk).
decryptFulfilled(r) ==
    /\ dec[r].status = "decrypting"
    /\ LET op      == dec[r]
           res     == Decrypt(op.key, op.iv, CipherTextOf(op.chunk.data, op.chunkType))
           newData == AssemblePlainFrame(op.chunk.data, op.chunkType, res.pt)
       IN  /\ res.ok
           /\ receiverOut' = [receiverOut EXCEPT ![r] =
                  Append(@, [op.chunk EXCEPT !.data = newData])]
           /\ decDone' = [decDone EXCEPT ![r] =
                  Outcome("decrypted", op, Len(receiverOut'[r]) - Len(receiverOut[r]), FALSE)]
    /\ dec' = [dec EXCEPT ![r] = Idle]
    /\ UNCHANGED << arrivedDec, sendCounts, nonceWindow, keyVars, encVars >>

\* Mutant of decryptRejected: the frame that failed authentication is logged
\* and forwarded as it came.
decryptRejectedForwards(r) ==
    /\ dec[r].status = "decrypting"
    /\ ~Decrypt(dec[r].key, dec[r].iv, CipherTextOf(dec[r].chunk.data, dec[r].chunkType)).ok
    /\ receiverOut' = [receiverOut EXCEPT ![r] = Append(@, dec[r].chunk)]
    /\ decDone' = [decDone EXCEPT ![r] =
           Outcome("cryptofail", dec[r], Len(receiverOut'[r]) - Len(receiverOut[r]), TRUE)]
    /\ dec' = [dec EXCEPT ![r] = Idle]
    /\ UNCHANGED << arrivedDec, sendCounts, nonceWindow, keyVars, encVars >>

\* crypto.subtle.decrypt rejects: e => { logger.error(e); }
decryptRejected(r) ==
    /\ dec[r].status = "decrypting"
    /\ ~Decrypt(dec[r].key, dec[r].iv, CipherTextOf(dec[r].chunk.data, dec[r].chunkType)).ok
    /\ UNCHANGED receiverOut
    /\ decDone' = [decDone EXCEPT ![r] =
           Outcome("cryptofail", dec[r], Len(receiverOut'[r]) - Len(receiverOut[r]), TRUE)]
    /\ dec' = [dec EXCEPT ![r] = Idle]
    /\ UNCHANGED << arrivedDec, sendCounts, nonceWindow, keyVars, encVars >>

\* ------------------------------------------------------- specifications

\* The secret of the next call: every call brings a new one.
NextSecret == installs + 1

\* Chunks delivered so far to the transforms counted by arrived.
RECURSIVE SumOver(_, _)
SumOver(f, S) == IF S = {} THEN 0 ELSE LET x == CHOOSE y \in S : TRUE
                                       IN  f[x] + SumOver(f, S \ {x})

Delivered(arrived) == SumOver(arrived, DOMAIN arrived)

DeliveredAll == Delivered(arrivedEnc) + Delivered(arrivedDec)

\* The steps of a context whose handleSender was called for the streams in
\* senders and whose handleReveiver was called for those in receivers.
Step(senders, receivers) ==
    \/ setKey(NextSecret)
    \/ installs < MaxSetKey /\ installKey(NextSecret)
    \/ \E s \in senders, ts \in Timestamps, offset \in RandomOffsets :
          \E shape \in SenderInputs(s) :
             DeliveredAll < MaxFrames /\ encodeFunction(s, shape, ts, offset)
    \/ \E s \in senders : encryptFulfilled(s)
    \/ \E s \in senders : encryptRejected(s)
    \/ \E r \in receivers, input \in ReceiverInputs :
          DeliveredAll < MaxFrames /\ decodeFunction(r, input)
    \/ \E r \in receivers : decryptFulfilled(r)
    \/ \E r \in receivers : decryptRejected(r)

\* One sender stream and one receiver stream.
Next == Step({1}, {1})

Spec == Init /\ [][Next]_vars

\* A long run of one sender stream, one ssrc, one key and one timestamp.  It
\* starts with the key of one installation in slot 0 and with the send count
\* of ssrc 42 either not yet seeded or at a value that earlier frames left.
\* The transform's readable side holds no more than the chunk just enqueued:
\* the next chunk is transformed once pipeTo has taken it.
NonceStartCounts == {Absent, 55536, 65535}

NonceInput == [type |-> "delta", data |-> Payload(1, 5), ssrc |-> 42]

InitNonce ==
    /\ cryptoKeyRing = [i \in 0 .. keyRingSize - 1 |-> IF i = 0 THEN deriveKey(1) ELSE NoKey]
    /\ currentKeyIndex = 0
    /\ sendCounts \in { [x \in Ssrcs |-> IF x = 42 THEN c ELSE Absent] : c \in NonceStartCounts }
    /\ setKeyCalls = 0
    /\ installs = 1
    /\ enc = [s \in Senders |-> Idle]
    /\ senderOut = [s \in Senders |-> <<>>]
    /\ encDone = [s \in Senders |-> NoOutcome]
    /\ arrivedEnc = [s \in Senders |-> 0]
    /\ dec = [r \in Receivers |-> Idle]
    /\ receiverOut = [r \in Receivers |-> <<>>]
    /\ decDone = [r \in Receivers |-> NoOutcome]
    /\ arrivedDec = [r \in Receivers |-> 0]
    /\ nonceWindow = [x \in Ssrcs |-> NoWindow]

NextNonce ==
    \/ \E ts \in Timestamps, offset \in RandomOffsets :
          /\ arrivedEnc[1] < NonceWindow
          /\ senderOut[1] = <<>>
          /\ encodeFunction(1, NonceInput, ts, offset)
    \/ encryptFulfilled(1)
    \/ encryptRejected(1)
    \/ pipeTo(1)

SpecNonce == InitNonce /\ [][NextNonce]_vars

\* The ring after n installations on a new context, n <= keyRingSize.
RingAfter(n) == [i \in 0 .. keyRingSize - 1 |-> IF i < n THEN deriveKey(i + 1) ELSE NoKey]

\* A context as constructed, or one whose ring the installations have just
\* filled, so that the next ones wrap around to slot 0 and evict.
RingStarts == {0, keyRingSize}

\* The frames of the ring runs: a key frame and a delta frame of one ssrc.
RingInputs == { x \in AllSenderInputs : x.ssrc = 42 /\ Len(x.data) \in {5, 12} }

InitRing ==
    /\ \E n \in RingStarts :
          /\ cryptoKeyRing = RingAfter(n)
          /\ currentKeyIndex = n - 1
          /\ installs = n
    /\ sendCounts = [x \in Ssrcs |-> Absent]
    /\ setKeyCalls = 0
    /\ enc = [s \in Senders |-> Idle]
    /\ senderOut = [s \in Senders |-> <<>>]
    /\ encDone = [s \in Senders |-> NoOutcome]
    /\ arrivedEnc = [s \in Senders |-> 0]
    /\ dec = [r \in Receivers |-> Idle]
    /\ receiverOut = [r \in Receivers |-> <<>>]
    /\ decDone = [r \in Receivers |-> NoOutcome]
    /\ arrivedDec = [r \in Receivers |-> 0]
    /\ nonceWindow = [x \in Ssrcs |-> NoWindow]

\* One sender stream and one receiver stream, with MaxSetKey installations
\* after the start.
NextRing ==
    \/ setKey(NextSecret)
    \/ installs % keyRingSize < MaxSetKey /\ installKey(NextSecret)
    \/ \E ts \in Timestamps, offset \in RandomOffsets :
          \E shape \in RingInputs :
             DeliveredAll < MaxFrames /\ encodeFunction(1, shape, ts, offset)
    \/ encryptFulfilled(1)
    \/ encryptRejected(1)
    \/ \E input \in ReceiverInputs :
          DeliveredAll < MaxFrames /\ decodeFunction(1, input)
    \/ decryptFulfilled(1)
    \/ decryptRejected(1)

SpecRing == InitRing /\ [][NextRing]_vars

\* A context with the key of one installation in slot 0 and no send count yet.
InitKeyed ==
    /\ cryptoKeyRing = RingAfter(1)
    /\ currentKeyIndex = 0
    /\ installs = 1
    /\ sendCounts = [x \in Ssrcs |-> Absent]
    /\ setKeyCalls = 0
    /\ enc = [s \in Senders |-> Idle]
    /\ senderOut = [s \in Senders |-> <<>>]
    /\ encDone = [s \in Senders |-> NoOutcome]
    /\ arrivedEnc = [s \in Senders |-> 0]
    /\ dec = [r \in Receivers |-> Idle]
    /\ receiverOut = [r \in Receivers |-> <<>>]
    /\ decDone = [r \in Receivers |-> NoOutcome]
    /\ arrivedDec = [r \in Receivers |-> 0]
    /\ nonceWindow = [x \in Ssrcs |-> NoWindow]

\* What the receiver's readable stream delivers in the ordering runs: the
\* sender's outputs as sent (decrypted), and raw payloads whose last byte
\* names no slot (passed through at once) or slot 0 (decryption fails).
OrderInputs ==
    { x \in ReceiverInputs :
         \/ x.origin.kind = "wire" /\ ~x.origin.tampered
         \/ x.origin.kind = "raw" /\ Len(x.chunk.data) > Len(Payload(1, 31)) }

\* One sender stream and one receiver stream of a context that has a key,
\* each with MaxOrderFrames frames, their completions interleaved.
NextOrder ==
    \/ \E ts \in Timestamps, offset \in RandomOffsets :
          arrivedEnc[1] < MaxOrderFrames /\ encodeFunction(1, NonceInput, ts, offset)
    \/ encryptFulfilled(1)
    \/ encryptRejected(1)
    \/ \E input \in OrderInputs :
          arrivedDec[1] < MaxOrderFrames /\ decodeFunction(1, input)
    \/ decryptFulfilled(1)
    \/ decryptRejected(1)

SpecOrder == InitKeyed /\ [][NextOrder]_vars

\* Two sender streams of one context that has a key (handleSender called
\* twice), both carrying frames of ssrc 42, their encodes and the completions
\* of their encryptions interleaved.
NextRace ==
    \/ \E s \in Senders, ts \in Timestamps, offset \in RandomOffsets :
          arrivedEnc[s] < MaxRaceFrames /\ encodeFunction(s, NonceInput, ts, offset)
    \/ \E s \in Senders : encryptFulfilled(s)
    \/ \E s \in Senders : encryptRejected(s)

SpecRace == InitKeyed /\ [][NextRace]_vars

\* ----------------------------------------------------------------- claims

Last(q) == q[Len(q)]

\* A receiver's last finished frame was a sender's output, delivered as sent,
\* and decoded with the key ring the sender had when it encoded it.
RoundTripCase(r) ==
    /\ decDone[r].result # "none"
    /\ decDone[r].origin.kind = "wire"
    /\ ~decDone[r].origin.tampered
    /\ decDone[r].call = decDone[r].origin.call

\* C1 (as claimed): a key or delta frame at least as long as its prefix,
\* encoded and then decoded with the same key ring, is enqueued by the decoder
\* with the payload it had before encoding, byte for byte.
C1_RoundTrip ==
    \A r \in Receivers :
        RoundTripCase(r) =>
            /\ decDone[r].result = "decrypted"
            /\ decDone[r].enqueued = 1
            /\ Last(receiverOut[r]).data = decDone[r].origin.plain

\* C2: every frame the encoder has enqueued carries, after its unencrypted
\* prefix, a ciphertext that an encryption of that frame's remaining bytes
\* under an installed key produced, followed by the iv of that encryption;
\* and a frame that found no active key was logged and not enqueued.
C2_NeverUnencrypted ==
    \A s \in Senders :
        /\ \A i \in 1 .. Len(senderOut[s]) :
              LET f     == senderOut[s][i]
                  P     == unencryptedBytes(f.origin.type)
                  plain == f.origin.plain
                  data  == f.chunk.data
              IN  /\ f.origin.key # NoKey
                  /\ Len(data) = Len(plain) + TagLength + ivLength + 1
                  /\ CipherTextOf(data, f.origin.type)
                       = Encrypt(f.origin.key, IvOf(data), Slice(plain, P, Len(plain) - P))
        /\ (encDone[s].result # "none" /\ encDone[s].key = NoKey) =>
              /\ encDone[s].result = "nokey"
              /\ encDone[s].enqueued = 0
              /\ encDone[s].logged

\* C2 witness: with no key installed one frame was dropped and logged, and
\* after an installation another frame was encrypted and enqueued.
C2_Witness ==
    /\ Len(senderOut[1]) = 1
    /\ arrivedEnc[1] = 2
    /\ senderOut[1][1].chunk.seq = 2
    /\ encDone[1].result = "encrypted"

\* C3 (as claimed): a completed setKey advances currentIndex by one modulo N,
\* stores the key derived from its argument in that slot and leaves every
\* other slot as it was.
C3_SetKeyInstalls ==
    [][setKeyCalls' # setKeyCalls =>
          /\ currentKeyIndex' = (currentKeyIndex + 1) % keyRingSize
          /\ cryptoKeyRing' = [cryptoKeyRing EXCEPT
                                  ![(currentKeyIndex + 1) % keyRingSize] = deriveKey(NextSecret)]
      ]_vars

\* C4 (as claimed): a frame encrypted under the key of installation j is
\* decoded successfully after k installations exactly when k - j < N.  (The
\* frames are those whose first byte agrees with their type, delivered as
\* sent.)
C4_RingEviction ==
    \A r \in Receivers :
        ( /\ decDone[r].result # "none"
          /\ decDone[r].origin.kind = "wire"
          /\ ~decDone[r].origin.tampered
          /\ decDone[r].origin.type = InferType(decDone[r].origin.plain) )
        => ( decDone[r].result = "decrypted"
               <=> decDone[r].call - decDone[r].origin.call < keyRingSize )

MinWireLength == unencryptedBytes("delta") + ivLength + 1

\* C6 (as claimed): a decoder input shorter than the minimum wire layout is
\* enqueued exactly once with its payload as it came, and no error is raised,
\* whatever its last byte and whichever slots are occupied.
C6_MalformedPassThrough ==
    \A r \in Receivers :
        (decDone[r].result # "none" /\ Len(decDone[r].chunk.data) < MinWireLength) =>
            /\ decDone[r].result = "passthrough"
            /\ decDone[r].enqueued = 1
            /\ Last(receiverOut[r]) = decDone[r].chunk
            /\ dec[r].status # "errored"

\* C7: a decoder input whose last byte names an empty slot (an index beyond
\* the ring and an empty payload's missing last byte included) is enqueued
\* exactly once, the same chunk with the same payload, and the transform
\* stays usable.
C7_NoKeyPassThrough ==
    \A r \in Receivers :
        (decDone[r].result # "none" /\ decDone[r].key = NoKey) =>
            /\ decDone[r].result = "passthrough"
            /\ decDone[r].enqueued = 1
            /\ Last(receiverOut[r]) = decDone[r].chunk
            /\ dec[r].status # "errored"

\* C7 witness: with a key installed, a payload long enough for the wire
\* layout whose last byte is the first index beyond the ring was passed
\* through.
C7_Witness ==
    /\ installs >= 1
    /\ decDone[1].result = "passthrough"
    /\ decDone[1].keyIndex = keyRingSize
    /\ Len(decDone[1].chunk.data) >= MinWireLength
    /\ Last(receiverOut[1]).data = decDone[1].chunk.data

\* C8: a frame whose decryption failed was logged and not enqueued (no chunk
\* of the downstream queue is that frame), and a sender's output with one bit
\* of its ciphertext or nonce flipped always ends that way.
C8_FailClosed ==
    \A r \in Receivers :
        /\ decDone[r].result = "cryptofail" =>
              /\ decDone[r].enqueued = 0
              /\ decDone[r].logged
              /\ \A i \in 1 .. Len(receiverOut[r]) :
                    receiverOut[r][i].seq # decDone[r].chunk.seq
        /\ (decDone[r].result # "none" /\ decDone[r].origin.tampered) =>
              decDone[r].result = "cryptofail"

\* C8 witness: a sender's output that would have decrypted, with one bit
\* flipped, failed authentication.
C8_Witness ==
    /\ decDone[1].result = "cryptofail"
    /\ decDone[1].origin.tampered
    /\ decDone[1].origin.type = InferType(decDone[1].origin.plain)
    /\ decDone[1].origin.keyIndex = 0
    /\ decDone[1].call = decDone[1].origin.call

ExpectedEnqueues(data, key) ==
    IF key = NoKey THEN 1
    ELSE IF ViewsThrow(data, InferType(data)) THEN 0
    ELSE IF Decrypt(key, IvOf(data), CipherTextOf(data, InferType(data))).ok THEN 1
    ELSE 0

C10_TransformSurvives ==
    /\ \A s \in Senders :
          encDone[s].result \in {"nokey", "cryptofail"} => enc[s].status # "errored"
    /\ \A r \in Receivers :
          ( /\ decDone[r].result # "none"
            /\ \/ Len(decDone[r].chunk.data) < MinWireLength
               \/ decDone[r].key = NoKey
               \/ decDone[r].result = "cryptofail" )
          => dec[r].status # "errored"

\* C11: every frame the encoder has enqueued, of type key or delta, starts
\* with the first P bytes of its input (P = 10 for key, 3 for delta), and its
\* payload is P + C + 13 bytes long, C being the length of the ciphertext of
\* the input's remaining bytes, tag included.
C11_PrefixPreserved ==
    \A s \in Senders :
        \A i \in 1 .. Len(senderOut[s]) :
            LET f     == senderOut[s][i]
                P     == unencryptedBytes(f.origin.type)
                plain == f.origin.plain
                C     == Len(Encrypt(f.origin.key, IvOf(f.chunk.data),
                                     Slice(plain, P, Len(plain) - P)))
            IN  /\ f.origin.type \in {"key", "delta"}
                /\ P = (IF f.origin.type = "key" THEN 10 ELSE 3)
                /\ Slice(f.chunk.data, 0, P) = Slice(plain, 0, P)
                /\ Len(f.chunk.data) = P + C + ivLength + 1

\* C11 witness: a key frame and a delta frame, both with bytes after the
\* prefix, were encrypted and enqueued.
C11_Witness ==
    /\ Len(senderOut[1]) = 2
    /\ { senderOut[1][i].origin.type : i \in 1 .. 2 } = {"key", "delta"}
    /\ \A i \in 1 .. 2 :
          Len(senderOut[1][i].origin.plain) > unencryptedBytes(senderOut[1][i].origin.type)

\* The key ring as the encoder sees it: the index is an integer of -1 .. N - 1.
RingIndexInRange == currentKeyIndex \in -1 .. keyRingSize - 1

\* An encode step of stream s: what the call resolved is in enc'[s] when it
\* went on to encrypt, and in encDone'[s] when it ended at once.
EncodeResolved(s) == IF enc'[s].status = "encrypting" THEN enc'[s] ELSE encDone'[s]

\* C12: in every reachable state currentIndex is an integer of -1 .. N - 1,
\* and every encode that starts while currentIndex >= 0 uses the key of slot
\* currentIndex mod N, while one that starts at currentIndex = -1 finds no key.
C12_KeyRingInvariant ==
    /\ []RingIndexInRange
    /\ [][\A s \in Senders :
            arrivedEnc'[s] # arrivedEnc[s] =>
                IF currentKeyIndex >= 0
                THEN /\ EncodeResolved(s).keyIndex = currentKeyIndex % keyRingSize
                     /\ EncodeResolved(s).key = cryptoKeyRing[currentKeyIndex % keyRingSize]
                     /\ EncodeResolved(s).key = deriveKey(installs)
                ELSE /\ EncodeResolved(s).key = NoKey
                     /\ encDone'[s].result = "nokey"
         ]_vars

\* C12 witness: after more installations than the ring has slots the index
\* has wrapped around, and an encode is under way with the key of the latest
\* installation, which replaced the first one in slot 0.
C12_Witness ==
    /\ installs = keyRingSize + 1
    /\ currentKeyIndex = 0
    /\ enc[1].status = "encrypting"
    /\ enc[1].call = installs
    /\ enc[1].key = cryptoKeyRing[0]
    /\ enc[1].key = deriveKey(keyRingSize + 1)

\* C13 (as claimed): the last byte of every frame the encoder has enqueued is
\* the key index (currentIndex mod N) of the key the frame was encrypted
\* with, and a decoder that reads it resolves the slot the encoder used.
C13_KeyIndexOnWire ==
    /\ \A s \in Senders :
          \A i \in 1 .. Len(senderOut[s]) :
              LastByte(senderOut[s][i].chunk.data) = senderOut[s][i].origin.keyIndex
    /\ \A r \in Receivers :
          (decDone[r].result # "none" /\ decDone[r].origin.kind = "wire"
              /\ ~decDone[r].origin.tampered)
          => decDone[r].keyIndex = decDone[r].origin.keyIndex

\* C14 (as claimed): when decryption succeeds for a frame whose inferred type
\* has prefix length P, the payload the decoder enqueues is the input's first
\* P bytes followed by the decrypted plaintext and nothing more, for key and
\* for delta frames.
C14_DecodedAssembly ==
    \A r \in Receivers :
        decDone[r].result = "decrypted" =>
            LET data == decDone[r].chunk.data
                type == InferType(data)
                P    == unencryptedBytes(type)
                pt   == Decrypt(decDone[r].key, IvOf(data), CipherTextOf(data, type)).pt
            IN  /\ Last(receiverOut[r]).data = Slice(data, 0, P) \o pt
                /\ Len(Last(receiverOut[r]).data) = P + Len(pt)

\* C15 (as claimed): the iv of every encode under way is the big-endian ssrc
\* in bytes 0..3, the big-endian timestamp in bytes 4..7 and the big-endian
\* value of (send count mod 0x10000) in bytes 8..11, for every send count the
\* Map can hold, 0xFFFF and the values above it included.
C15_NonceConstruction ==
    \A s \in Senders :
        enc[s].status = "encrypting" =>
            /\ Len(enc[s].iv) = ivLength
            /\ Slice(enc[s].iv, 0, 4) = setUint32(enc[s].chunk.synchronizationSource)
            /\ Slice(enc[s].iv, 4, 4) = setUint32(enc[s].chunk.timestamp)
            /\ Slice(enc[s].iv, 8, 4) = setUint32(enc[s].sendCount % 65536)

\* C16: the send count of an ssrc changes only in an encode of that ssrc that
\* found a key: from no entry to a seed of 0 .. 0xFFFF plus one, and from a
\* value to that value plus one, the encode having read the value before the
\* increment; so the counts handed out for an ssrc grow strictly and none is
\* handed out twice.  The completion of an encryption, a rejection included,
\* leaves every send count as it is.
C16_CounterDiscipline ==
    [][\A x \in Ssrcs :
          /\ sendCounts'[x] # sendCounts[x] =>
                /\ \E s \in Senders :
                      /\ arrivedEnc'[s] = arrivedEnc[s] + 1
                      /\ EncodeResolved(s).chunk.synchronizationSource = x
                      /\ EncodeResolved(s).key # NoKey
                /\ IF sendCounts[x] = Absent
                   THEN sendCounts'[x] - 1 \in 0 .. 65535
                   ELSE sendCounts'[x] = sendCounts[x] + 1
          /\ \A s \in Senders :
                /\ ( /\ arrivedEnc'[s] # arrivedEnc[s]
                     /\ EncodeResolved(s).chunk.synchronizationSource = x
                     /\ EncodeResolved(s).key # NoKey )
                   => /\ sendCounts'[x] # Absent
                      /\ sendCounts'[x] # sendCounts[x]
                      /\ enc'[s].status = "encrypting" =>
                            /\ enc'[s].sendCount = sendCounts'[x] - 1
                            /\ sendCounts[x] # Absent => enc'[s].sendCount = sendCounts[x]
                /\ (enc[s].status = "encrypting" /\ enc'[s].status # "encrypting")
                   => sendCounts' = sendCounts
      ]_vars

\* C16 witness: an encryption was rejected, and the next frame of the same
\* ssrc read the count after the one the rejected frame had consumed.
C16_Witness ==
    /\ encDone[1].result = "cryptofail"
    /\ encDone[1].chunk.synchronizationSource = 42
    /\ enc[1].status = "encrypting"
    /\ enc[1].chunk.synchronizationSource = 42
    /\ enc[1].chunk.seq = 2
    /\ enc[1].sendCount \in {1, RandomScale}
    /\ sendCounts[42] = enc[1].sendCount + 1

\* C17: in each stream the chunks enqueued downstream are in the order in
\* which they were delivered to the transform, whatever mix of encryptions,
\* decryptions, pass-throughs and drops produced them; and the chunk whose
\* encryption or decryption is under way is not downstream yet, nor is any
\* chunk delivered after it.
C17_InOrder ==
    /\ \A s \in Senders :
          /\ \A i, j \in 1 .. Len(senderOut[s]) :
                i < j => senderOut[s][i].chunk.seq < senderOut[s][j].chunk.seq
          /\ \A i \in 1 .. Len(senderOut[s]) : senderOut[s][i].chunk.seq <= arrivedEnc[s]
          /\ enc[s].status = "encrypting" =>
                /\ enc[s].chunk.seq = arrivedEnc[s]
                /\ \A i \in 1 .. Len(senderOut[s]) :
                      senderOut[s][i].chunk.seq < enc[s].chunk.seq
    /\ \A r \in Receivers :
          /\ \A i, j \in 1 .. Len(receiverOut[r]) :
                i < j => receiverOut[r][i].seq < receiverOut[r][j].seq
          /\ \A i \in 1 .. Len(receiverOut[r]) : receiverOut[r][i].seq <= arrivedDec[r]
          /\ dec[r].status = "decrypting" =>
                /\ dec[r].chunk.seq = arrivedDec[r]
                /\ \A i \in 1 .. Len(receiverOut[r]) :
                      receiverOut[r][i].seq < dec[r].chunk.seq

\* C17 witness: the receiver passed its first chunk through at once, dropped
\* the second after a failed decryption and enqueued the third after a
\* decryption, while the sender had enqueued two chunks and was encrypting a
\* third.
C17_Witness ==
    /\ arrivedDec[1] = 3
    /\ Len(receiverOut[1]) = 2
    /\ receiverOut[1][1].seq = 1
    /\ receiverOut[1][1].data = Payload(1, 31) \o << keyRingSize >>
    /\ receiverOut[1][2].seq = 3
    /\ decDone[1].result = "decrypted"
    /\ Len(senderOut[1]) = 2
    /\ enc[1].status = "encrypting"

\* C18: of the encodes of one ssrc that are under way at once on the streams
\* of one context, no two read the same send count, and the count each read
\* is below the one the Map holds now, so no later encode reads it either.
C18_NoCounterRace ==
    /\ \A s, t \in Senders :
          ( /\ s # t
            /\ enc[s].status = "encrypting"
            /\ enc[t].status = "encrypting"
            /\ enc[s].chunk.synchronizationSource = enc[t].chunk.synchronizationSource )
          => enc[s].sendCount # enc[t].sendCount
    /\ \A s \in Senders :
          enc[s].status = "encrypting" =>
              /\ enc[s].sendCount >= 0
              /\ enc[s].sendCount < sendCounts[enc[s].chunk.synchronizationSource]

\* C18 witness: both streams have an encode of ssrc 42 under way, the one of
\* stream 2 started after the one of stream 1 and before its completion, and
\* stream 1 had completed an earlier frame.
C18_Witness ==
    /\ enc[1].status = "encrypting"
    /\ enc[2].status = "encrypting"
    /\ enc[1].chunk.synchronizationSource = 42
    /\ enc[2].chunk.synchronizationSource = 42
    /\ arrivedEnc[1] = 2
    /\ enc[2].sendCount = enc[1].sendCount + 1
    /\ sendCounts[42] = enc[2].sendCount + 1

\* C19 (as claimed): for every frame the encoder has enqueued, the type the
\* decoder infers from the low-order bit of its first byte is the chunk.type
\* the encoder chose the prefix length by, so both split the payload at the
\* same offset, whatever the first byte of a key frame or of a delta frame.
C19_PrefixAgreement ==
    \A s \in Senders :
        \A i \in 1 .. Len(senderOut[s]) :
            LET f == senderOut[s][i]
            IN  /\ InferType(f.chunk.data) = f.origin.type
                /\ unencryptedBytes(InferType(f.chunk.data)) = unencryptedBytes(f.origin.type)

\* C20: a step of a receiver stream (a decode, the completion of a
\* decryption) leaves the key ring, the index and every send count as they
\* are; a step of a sender stream leaves the key ring and the index as they
\* are and changes no send count but, in an encode, that of the frame's own
\* ssrc; and an encode that finds no key leaves every send count as it is.
C20_FrameConditions ==
    [][/\ (arrivedDec' # arrivedDec \/ dec' # dec \/ decDone' # decDone
              \/ receiverOut' # receiverOut)
          => /\ cryptoKeyRing' = cryptoKeyRing
             /\ currentKeyIndex' = currentKeyIndex
             /\ sendCounts' = sendCounts
       /\ \A s \in Senders :
             /\ (arrivedEnc'[s] # arrivedEnc[s] \/ enc'[s] # enc[s] \/ encDone'[s] # encDone[s]
                    \/ senderOut'[s] # senderOut[s])
                => /\ cryptoKeyRing' = cryptoKeyRing
                   /\ currentKeyIndex' = currentKeyIndex
                   /\ \A x \in Ssrcs :
                         sendCounts'[x] # sendCounts[x] =>
                             /\ arrivedEnc'[s] # arrivedEnc[s]
                             /\ EncodeResolved(s).chunk.synchronizationSource = x
             /\ (arrivedEnc'[s] # arrivedEnc[s] /\ EncodeResolved(s).key = NoKey)
                => /\ sendCounts' = sendCounts
                   /\ encDone'[s].result = "nokey"
      ]_vars

\* C20 witness: a frame of ssrc 42 found no key and was dropped; after an
\* installation the next frame of ssrc 42 seeded the send count, which the
\* dropped frame had neither created nor consumed, and ssrc 43 has none.
C20_Witness ==
    /\ encDone[1].result = "nokey"
    /\ encDone[1].chunk.synchronizationSource = 42
    /\ enc[1].status = "encrypting"
    /\ enc[1].chunk.synchronizationSource = 42
    /\ enc[1].sendCount \in RandomOffsets
    /\ sendCounts[42] = enc[1].sendCount + 1
    /\ sendCounts[43] = Absent
    /\ currentKeyIndex = 0

====
